---- MODULE Spec2Model ----
(***************************************************************************)
(* Verification model of yamlpath's two command front-ends:                *)
(*   - yaml_merge.py : validateargs and main (the merge orchestrator)      *)
(*   - yaml_paths.py : search_for_paths (the document matcher) and main    *)
(*                     (the search command)                                *)
(* Strings that the code inspects character by character (file names,      *)
(* keys, locators) are sequences of one-character strings.                 *)
(***************************************************************************)
EXTENDS Integers, Sequences, FiniteSets, TLC

(***************************************************************************)
(* Bounds                                                                  *)
(***************************************************************************)
MaxFiles == 3
MaxDocs == 3
MaxNodes == 4
MaxExpressions == 2

(***************************************************************************)
(* Merge orchestrator: state                                               *)
(***************************************************************************)
VARIABLES
    rhs_files,        \* args.rhs_files: the listed sources, in order
    isatty,           \* sys.stdin.isatty()
    nostdin,          \* args.nostdin
    output,           \* args.output: "unset", or the state of the named file
    config,           \* args.config: "unset", "readable" or "unreadable"
    pc,               \* position in main()
    errors,           \* messages validateargs logged (has_errors = non-empty)
    sys_exit,         \* status the process exited with, Running before that
    exit_state,       \* main's exit_state
    md_exit_state,    \* process_multidoc's exit_state
    lhs_is_multidoc,  \* main's lhs_is_multidoc
    prime_data,       \* documents left in the prime's generator
    doc_number,       \* process_multidoc's doc_number
    fileiterator,     \* how many listed sources the iterator has yielded
    consumed_stdin,   \* main's consumed_stdin
    trace,            \* every load and merge-engine call so far, in order
    sink,             \* what was dumped, and where
    source_value,     \* per source, the value its documents give the scalar
    merger_data,      \* the scalar in merger.data
    dumped            \* the scalar in the document that was dumped

mvars == <<rhs_files, isatty, nostdin, output, config, pc, errors, sys_exit,
           exit_state, md_exit_state, lhs_is_multidoc, prime_data,
           doc_number, fileiterator, consumed_stdin, trace, sink,
           source_value, merger_data, dumped>>

(***************************************************************************)
(* Document matcher: state                                                 *)
(***************************************************************************)
VARIABLES
    data,             \* the document handed to search_for_paths
    terms,            \* the SearchTerms: method, term, inverted
    pathsep,          \* the PathSeperators member
    kwargs,           \* search_values, search_keys, include_aliases
    results,          \* the locators search_for_paths yielded, in order
    spc               \* "ready" before the search, "searched" after it

svars == <<data, terms, pathsep, kwargs, results, spc>>

(***************************************************************************)
(* Search command: state                                                   *)
(***************************************************************************)
VARIABLES
    args,               \* what processcli returned to yaml_paths.main
    file_number,        \* how many of args.yaml_files the loop has taken
    search_exit_state,  \* yaml_paths.main's exit_state
    printed,            \* the lines printed so far, in order
    searches,           \* the calls of search_for_paths so far, in order
    search_exit,        \* status the command exited with, Running before
    ppc                 \* "files" inside the loop over the files, "done" after

pvars == <<args, file_number, search_exit_state, printed, searches,
           search_exit, ppc>>

vars == <<mvars, svars, pvars>>

Running == -1

(***************************************************************************)
(* File names                                                              *)
(***************************************************************************)
Dash == <<"-">>

\* The names a source can be listed under: the pseudo-file, the pseudo-file
\* with surrounding blanks, and two ordinary names.
FileNames == { Dash, <<" ", "-">>, <<"a">>, <<"b">> }

RECURSIVE lstrip(_)
lstrip(s) ==
    IF s # <<>> /\ Head(s) = " " THEN lstrip(Tail(s)) ELSE s

RECURSIVE rstrip(_)
rstrip(s) ==
    IF s # <<>> /\ s[Len(s)] = " " THEN rstrip(SubSeq(s, 1, Len(s) - 1)) ELSE s

\* str.strip()
strip(s) == rstrip(lstrip(s))

\* Sequences over S of length lo..hi
SeqsOf(S, lo, hi) == UNION { [1..n -> S] : n \in lo..hi }

(***************************************************************************)
(* validateargs                                                            *)
(***************************************************************************)
TooFewFiles_ignoring_nostdin(files, tty, nos) ==
    LET input_file_count == Len(files)
    IN  \/ input_file_count = 0
        \/ /\ input_file_count = 1
           /\ (tty \/ strip(files[1]) = Dash)

\* "There must be at least two input files"
TooFewFiles(files, tty, nos) ==
    LET input_file_count == Len(files)
    IN  \/ input_file_count = 0
        \/ /\ input_file_count = 1
           /\ (tty \/ strip(files[1]) = Dash \/ nos)

pseudofile_count(files) ==
    Cardinality({ i \in 1..Len(files) : strip(files[i]) = Dash })

TooManyPseudofiles_off_by_one(files) == pseudofile_count(files) > 2

\* "There can be only one -"
TooManyPseudofiles(files) == pseudofile_count(files) > 1

ValidationErrors_ignoring_output(files, tty, nos, cfg, out) ==
    (IF TooFewFiles(files, tty, nos) THEN {"count"} ELSE {})
    \cup (IF TooManyPseudofiles(files) THEN {"pseudofile"} ELSE {})
    \cup (IF cfg = "unreadable" THEN {"config"} ELSE {})

ValidationErrors(files, tty, nos, cfg, out) ==
    (IF TooFewFiles(files, tty, nos) THEN {"count"} ELSE {})
    \cup (IF TooManyPseudofiles(files) THEN {"pseudofile"} ELSE {})
    \cup (IF cfg = "unreadable" THEN {"config"} ELSE {})
    \cup (IF out = "exists" THEN {"output"} ELSE {})

(***************************************************************************)
(* main: helpers                                                           *)
(***************************************************************************)
\* What get_yaml_data hands back, as main tells the cases apart: None, one
\* document, or a generator of documents.
LoadResults == {"none", "single", "multi"}

\* What one merger.merge_with call does: returns, raises MergeException, or
\* raises YAMLPathException.
MergeResults == {"ok", "conflict", "patherr"}

\* A document a generator yields: None (an empty document) or data whose
\* merge has one of the three results.
DocResults == {"null"} \cup MergeResults

Event(op, src, doc, res) == [op |-> op, src |-> src, doc |-> doc, res |-> res]

process_rhs_wrong_status(rhs_file, isf, rhs_data, merged) ==
    IF rhs_file # Dash /\ ~isf THEN 3
    ELSE IF rhs_data = "none" THEN 3
    ELSE IF merged = "conflict" THEN 4
    ELSE IF merged = "patherr" THEN 5
    ELSE 0

\* process_rhs's return value; isf is isfile(rhs_file), rhs_data what
\* get_yaml_data returned, merged what merge_with did.
process_rhs(rhs_file, isf, rhs_data, merged) ==
    IF rhs_file # Dash /\ ~isf THEN 2
    ELSE IF rhs_data = "none" THEN 3
    ELSE IF merged = "conflict" THEN 4
    ELSE IF merged = "patherr" THEN 5
    ELSE 0

\* The loads and merge-engine calls process_rhs performs for source number src.
process_rhs_events(src, rhs_file, isf, rhs_data, merged) ==
    IF rhs_file # Dash /\ ~isf THEN << Event("load", src, 0, "missing") >>
    ELSE IF rhs_data = "none" THEN << Event("load", src, 0, "none") >>
    ELSE << Event("load", src, 0, rhs_data), Event("merge", src, 1, merged) >>

\* The status one iteration of process_multidoc leaves in its exit_state.
multidoc_state(prev, doc) ==
    IF doc = "conflict" THEN 6
    ELSE IF doc = "patherr" THEN 7
    ELSE prev

FileAt_swapped(n) ==
    IF Len(rhs_files) >= 3 /\ n \in {2, 3} THEN 5 - n ELSE n

FileAt_reversed(n) == Len(rhs_files) + 1 - n

\* The position in rhs_files of the n-th source the iterator yields.
FileAt(n) == n

\* Where main goes once the sources up to the n-th have been taken.
AfterFile(n) == IF n < Len(rhs_files) THEN "rhs_loop" ELSE "stdin_check"

DrainStdin_when_consumed(es, consumed, nos, tty) ==
    es = 0 /\ consumed /\ ~nos /\ ~tty

DrainStdin_ignoring_consumed(es, consumed, nos, tty) ==
    es = 0 /\ ~nos /\ ~tty

\* "Check for a waiting STDIN document"
DrainStdin(es, consumed, nos, tty) ==
    es = 0 /\ ~consumed /\ ~nos /\ ~tty

\* A source that does not set the scalar
Unset == "unset"

\* The values a right-hand source can give the scalar, and the prime's
RhsValues == {Unset, "B", "C"}

PrimeValues == {Unset, "A"}

\* Merger.merge_with for one scalar: the right-hand side's value replaces
\* the prime's, and a right-hand side without it leaves the prime's.
merge_with(lhs, rhs) == IF rhs = Unset THEN lhs ELSE rhs

\* merger.data after process_rhs returned proc_state: merged when the
\* source was loaded and merge_with returned.
merged_data(lhs, proc_state, rhs) ==
    IF proc_state = 0 THEN merge_with(lhs, rhs) ELSE lhs

ShouldDump_always(es) == TRUE

\* "Output the final document"
ShouldDump(es) == es = 0

(***************************************************************************)
(* Documents                                                               *)
(***************************************************************************)
NoAnchor == <<>>

AnchorNames == { <<"n">> }

ScalarValues == { <<"x">>, <<"y">> }

KeyNames == { <<"y">>, <<"y", "[", "0", "]">> }

Scalar(v, a) == [kind |-> "scalar", value |-> v, anchor |-> a, items |-> <<>>]

\* A CommentedSeq: items is the list of its elements.
SeqNode(its, a) == [kind |-> "seq", value |-> <<>>, anchor |-> a, items |-> its]

\* A CommentedMap: items is the list of its (key, value) pairs in order;
\* merged marks a pair that the map only inherits through a merge key.
MapNode(its, a) == [kind |-> "map", value |-> <<>>, anchor |-> a, items |-> its]

Pair(k, v, m) == [key |-> k, val |-> v, merged |-> m]

IsContainer(node) == node.kind \in {"seq", "map"}

\* The value of a pair or the element itself: the i-th child of a container.
Child(node, i) ==
    IF node.kind = "map" THEN node.items[i].val ELSE node.items[i]

RECURSIVE SubNodes(_)
SubNodes(node) ==
    {node} \cup
    (IF IsContainer(node)
     THEN UNION { SubNodes(Child(node, i)) : i \in 1..Len(node.items) }
     ELSE {})

\* An anchor names one node of a document; its aliases are that same node.
AnchorsUnique(doc) ==
    \A a, b \in SubNodes(doc) :
        (a.anchor # NoAnchor /\ a.anchor = b.anchor) => a = b

RECURSIVE Size(_)
Size(node) ==
    LET S[i \in 0..Len(node.items)] ==
            IF i = 0 THEN 1 ELSE S[i - 1] + Size(Child(node, i))
    IN  IF IsContainer(node) THEN S[Len(node.items)] ELSE 1

\* Where the containers of a document are: child positions from the root.
RECURSIVE ContainerPositions(_)
ContainerPositions(node) ==
    IF ~IsContainer(node) THEN {}
    ELSE {<<>>} \cup
         UNION { { <<i>> \o p : p \in ContainerPositions(Child(node, i)) }
                 : i \in 1..Len(node.items) }

RECURSIVE NodeAt(_, _)
NodeAt(node, at) ==
    IF at = <<>> THEN node ELSE NodeAt(Child(node, Head(at)), Tail(at))

\* The document with one more entry at the end of the container at `at`.
RECURSIVE AppendAt(_, _, _)
AppendAt(node, at, entry) ==
    IF at = <<>> THEN [node EXCEPT !.items = Append(@, entry)]
    ELSE IF node.kind = "map"
    THEN [node EXCEPT !.items[Head(at)].val = AppendAt(@, Tail(at), entry)]
    ELSE [node EXCEPT !.items[Head(at)] = AppendAt(@, Tail(at), entry)]

Anchorings == {NoAnchor} \cup AnchorNames

\* What the loader can add to a container: a new scalar or a new (still
\* empty) container, anchored or not, or an alias of a node already anchored.
NewNodes(doc) ==
    { Scalar(v, a) : v \in ScalarValues, a \in Anchorings }
    \cup { SeqNode(<<>>, a) : a \in Anchorings }
    \cup { MapNode(<<>>, a) : a \in Anchorings }
    \cup { n \in SubNodes(doc) : n.anchor # NoAnchor }

KeysOf(node) == { node.items[i].key : i \in 1..Len(node.items) }

(***************************************************************************)
(* search_for_paths                                                        *)
(***************************************************************************)
PathSeperators == {"dot", "fslash"}

\* str(pathsep)
strsep(sep) == IF sep = "fslash" THEN <<"/">> ELSE <<".">>

SearchMethods == {"equals"}

\* yamlpath.func.search_matches, for the EQUALS method
search_matches(method, term, haystack) ==
    method = "equals" /\ haystack = term

\* yamlpath.func.ensure_escaped for one symbol: every occurrence of the
\* symbol gets a backslash in front of it.
RECURSIVE ensure_escaped(_, _)
ensure_escaped(value, symbol) ==
    IF value = <<>> THEN <<>>
    ELSE (IF <<Head(value)>> = symbol THEN <<"\\">> \o symbol
          ELSE <<Head(value)>>) \o ensure_escaped(Tail(value), symbol)

Digits == <<"0", "1", "2", "3", "4", "5", "6", "7", "8", "9">>

RECURSIVE str(_)

str_one_based(n) == <<Digits[n + 2]>>

\* str(idx) for a non-negative integer
str(n) ==
    IF n < 10 THEN <<Digits[n + 1]>>
    ELSE str(n \div 10) \o <<Digits[(n % 10) + 1]>>

Yields_ignoring_invert(matches, invert) == matches

\* "(matches and not invert) or (invert and not matches)"
Yields(matches, invert) == (matches /\ ~invert) \/ (invert /\ ~matches)

\* One evaluation of the search expression: the locator of the node tested,
\* where the node sits in the document (at: child positions from the root;
\* role: key, value or element) and whether its locator is yielded.  A call
\* of search_for_paths on a container is recorded the same way, with role
\* "call", the build_path it was given, and no yield.
Tested(path, at, role, hit) ==
    [path |-> path, at |-> at, role |-> role, hit |-> hit]

\* data.non_merged_items(), or data.items() with include_aliases: the
\* positions of the pairs scanned, in order.
pool(node, include_aliases) ==
    LET Own(i) == IF ~node.items[i].merged \/ include_aliases THEN <<i>> ELSE <<>>
        F[i \in 0..Len(node.items)] ==
            IF i = 0 THEN <<>> ELSE F[i - 1] \o Own(i)
    IN  F[Len(node.items)]

ignore_duplicate_never(anchor, seen, include_aliases) == FALSE

ignore_duplicate_whenever_seen(anchor, seen, include_aliases) ==
    anchor # NoAnchor /\ anchor \in seen

\* "if anchor_name in seen_anchors: if not include_aliases: continue"
ignore_duplicate(anchor, seen, include_aliases) ==
    anchor # NoAnchor /\ anchor \in seen /\ ~include_aliases

tests_value_despite_key(search_values, key_matched) == search_values

\* "elif search_values and not key_matched"
tests_value(search_values, key_matched) == search_values /\ ~key_matched

RECURSIVE visit(_, _, _, _)
RECURSIVE scan_seq(_, _, _, _, _, _)
RECURSIVE scan_map(_, _, _, _, _, _, _)

scan_seq_later_first(node, n, seen, build_path, at, env) ==
    IF n > Len(node.items) THEN <<>>
    ELSE
    LET ele == node.items[n]
        anchored == ele.anchor # NoAnchor
        seen2 == IF anchored THEN seen \cup {ele.anchor} ELSE seen
        tmp_path ==
            IF anchored
            THEN build_path \o <<"&">>
                   \o ensure_escaped(ele.anchor, strsep(env.pathsep)) \o <<"]">>
            ELSE build_path \o str(n - 1) \o <<"]">>
    IN  IF ignore_duplicate(ele.anchor, seen, env.include_aliases)
        THEN scan_seq(node, n + 1, seen, build_path, at, env)
        ELSE scan_seq(node, n + 1, seen2, build_path, at, env)
             \o (IF IsContainer(ele)
                 THEN visit(ele, tmp_path, at \o <<n>>, env)
                 ELSE IF env.search_values
                 THEN << Tested(tmp_path, at \o <<n>>, "element",
                           Yields(search_matches(env.method, env.term,
                                                 ele.value), env.invert)) >>
                 ELSE <<>>)

\* The body of "for idx, ele in enumerate(data)" from element number n on
\* (n = idx + 1); seen is seen_anchors, env the arguments of the call.
scan_seq(node, n, seen, build_path, at, env) ==
    IF n > Len(node.items) THEN <<>>
    ELSE
    LET ele == node.items[n]
        anchored == ele.anchor # NoAnchor
        seen2 == IF anchored THEN seen \cup {ele.anchor} ELSE seen
        tmp_path ==
            IF anchored
            THEN build_path \o <<"&">>
                   \o ensure_escaped(ele.anchor, strsep(env.pathsep)) \o <<"]">>
            ELSE build_path \o str(n - 1) \o <<"]">>
    IN  IF ignore_duplicate(ele.anchor, seen, env.include_aliases)
        THEN scan_seq(node, n + 1, seen, build_path, at, env)
        ELSE (IF IsContainer(ele)
              THEN visit(ele, tmp_path, at \o <<n>>, env)
              ELSE IF env.search_values
              THEN << Tested(tmp_path, at \o <<n>>, "element",
                        Yields(search_matches(env.method, env.term, ele.value),
                               env.invert)) >>
              ELSE <<>>)
             \o scan_seq(node, n + 1, seen2, build_path, at, env)

\* The body of "for key, val in pool" from the n-th pair of the pool on.
scan_map(node, pl, n, seen, build_path, at, env) ==
    IF n > Len(pl) THEN <<>>
    ELSE
    LET key == node.items[pl[n]].key
        val == node.items[pl[n]].val
        here == at \o <<pl[n]>>
        tmp_path == build_path \o
            ensure_escaped(ensure_escaped(key, <<"\\">>), strsep(env.pathsep))
        key_hit == Yields(search_matches(env.method, env.term, key), env.invert)
        key_matched == env.search_keys /\ key_hit
        key_test == IF env.search_keys
                    THEN << Tested(tmp_path, here, "key", key_hit) >>
                    ELSE <<>>
        anchored == val.anchor # NoAnchor
        seen2 == IF anchored THEN seen \cup {val.anchor} ELSE seen
    IN  IF IsContainer(val)
        THEN key_test \o visit(val, tmp_path, here, env)
                      \o scan_map(node, pl, n + 1, seen, build_path, at, env)
        ELSE IF tests_value(env.search_values, key_matched)
        THEN IF ignore_duplicate(val.anchor, seen, env.include_aliases)
             THEN key_test
                    \o scan_map(node, pl, n + 1, seen, build_path, at, env)
             ELSE key_test
                    \o << Tested(tmp_path, here, "value",
                            Yields(search_matches(env.method, env.term,
                                                  val.value), env.invert)) >>
                    \o scan_map(node, pl, n + 1, seen2, build_path, at, env)
        ELSE key_test \o scan_map(node, pl, n + 1, seen, build_path, at, env)

visit_without_sequence_prefix(node, build_path, at, env) ==
    IF node.kind = "seq"
    THEN << Tested(build_path, at, "call", FALSE) >>
         \o scan_seq(node, 1, {}, build_path \o <<"[">>, at, env)
    ELSE IF node.kind = "map"
    THEN LET bp == IF build_path # <<>> THEN build_path \o strsep(env.pathsep)
                   ELSE IF env.pathsep = "fslash" THEN strsep(env.pathsep)
                   ELSE build_path
         IN  << Tested(build_path, at, "call", FALSE) >>
             \o scan_map(node, pool(node, env.include_aliases), 1, {}, bp, at,
                         env)
    ELSE <<>>

\* One call of search_for_paths on node with the given build_path: the call
\* itself, then every evaluation of the search expression it and its
\* recursive calls make, in order.
visit(node, build_path, at, env) ==
    IF node.kind = "seq"
    THEN LET bp == IF build_path = <<>> /\ env.pathsep = "fslash"
                   THEN strsep(env.pathsep) ELSE build_path
         IN  << Tested(build_path, at, "call", FALSE) >>
             \o scan_seq(node, 1, {}, bp \o <<"[">>, at, env)
    ELSE IF node.kind = "map"
    THEN LET bp == IF build_path # <<>> THEN build_path \o strsep(env.pathsep)
                   ELSE IF env.pathsep = "fslash" THEN strsep(env.pathsep)
                   ELSE build_path
         IN  << Tested(build_path, at, "call", FALSE) >>
             \o scan_map(node, pool(node, env.include_aliases), 1, {}, bp, at,
                         env)
    ELSE <<>>

\* The arguments of one call, gathered.
Env(t, sep, kw) ==
    [method |-> t.method, term |-> t.term, invert |-> t.inverted,
     pathsep |-> sep, search_values |-> kw.search_values,
     search_keys |-> kw.search_keys, include_aliases |-> kw.include_aliases]

\* The evaluations with a yield, in order.
RECURSIVE Hits(_)
Hits(tests) ==
    IF tests = <<>> THEN <<>>
    ELSE (IF Head(tests).hit THEN <<Head(tests)>> ELSE <<>>) \o Hits(Tail(tests))

\* search_for_paths(data, terms, pathsep, build_path, **kwargs): the locators
\* one call yields, its recursive calls' included.
search_for_paths_from(node, build_path, at, env) ==
    LET hits == Hits(visit(node, build_path, at, env))
    IN  [i \in 1..Len(hits) |-> hits[i].path]

\* search_for_paths(data, terms, pathsep, **kwargs): the locators yielded.
search_for_paths(doc, t, sep, kw) ==
    search_for_paths_from(doc, <<>>, <<>>, Env(t, sep, kw))

SearchTerms == [method : SearchMethods, term : { <<"y">> }, inverted : BOOLEAN]

Kwargs == [search_values : BOOLEAN, search_keys : BOOLEAN,
           include_aliases : BOOLEAN]

\* The defaults of search_for_paths's signature
DefaultKwargs ==
    [search_values |-> TRUE, search_keys |-> FALSE, include_aliases |-> FALSE]

(***************************************************************************)
(* Document matcher: initial state and steps                               *)
(***************************************************************************)
SearchIdle ==
    /\ data = Scalar(<<"x">>, NoAnchor)
    /\ terms = [method |-> "equals", term |-> <<"y">>, inverted |-> FALSE]
    /\ pathsep = "dot"
    /\ kwargs = DefaultKwargs
    /\ results = <<>>
    /\ spc = "idle"

MergeIdle ==
    /\ rhs_files = <<>>
    /\ isatty = FALSE
    /\ nostdin = FALSE
    /\ output = "unset"
    /\ config = "unset"
    /\ pc = "idle"
    /\ errors = {}
    /\ sys_exit = Running
    /\ exit_state = 0
    /\ md_exit_state = 0
    /\ lhs_is_multidoc = FALSE
    /\ prime_data = 0
    /\ doc_number = 0
    /\ fileiterator = 0
    /\ consumed_stdin = FALSE
    /\ trace = <<>>
    /\ sink = "nothing"
    /\ source_value = [i \in 1..(Len(rhs_files) + 1) |-> Unset]
    /\ merger_data = Unset
    /\ dumped = Unset

PathsIdle ==
    /\ args = [search |-> <<>>, pathsep |-> "dot",
               ignorekeynames |-> FALSE, keynames |-> FALSE,
               onlykeynames |-> FALSE, onlyanchors |-> FALSE,
               aliases |-> FALSE, yaml_files |-> <<>>]
    /\ file_number = 0
    /\ search_exit_state = 0
    /\ printed = <<>>
    /\ searches = <<>>
    /\ search_exit = Running
    /\ ppc = "idle"

\* The document before anything is loaded into it: an empty sequence or an
\* empty mapping (the search never looks at the root's own anchor).
SearchInit ==
    /\ data \in { SeqNode(<<>>, NoAnchor), MapNode(<<>>, NoAnchor) }
    /\ terms = [method |-> "equals", term |-> <<"y">>, inverted |-> FALSE]
    /\ pathsep = "dot"
    /\ kwargs = DefaultKwargs
    /\ results = <<>>
    /\ spc = "ready"
    /\ MergeIdle
    /\ PathsIdle

\* The loaded document has one more element in one of its sequences.
LoadElement ==
    /\ spc = "ready"
    /\ \E at \in ContainerPositions(data), ele \in NewNodes(data) :
          /\ NodeAt(data, at).kind = "seq"
          /\ Size(data) + Size(ele) <= MaxNodes
          /\ data' = AppendAt(data, at, ele)
          /\ AnchorsUnique(data')
    /\ UNCHANGED <<terms, pathsep, kwargs, results, spc>>
    /\ UNCHANGED <<mvars, pvars>>

\* The loaded document has one more pair in one of its mappings; a pair the
\* mapping only inherits through a merge key has a scalar value here.
LoadPair ==
    /\ spc = "ready"
    /\ \E at \in ContainerPositions(data), val \in NewNodes(data),
          key \in KeyNames, merged \in BOOLEAN :
          /\ NodeAt(data, at).kind = "map"
          /\ key \notin KeysOf(NodeAt(data, at))
          /\ merged => val.kind = "scalar"
          /\ Size(data) + Size(val) <= MaxNodes
          /\ data' = AppendAt(data, at, Pair(key, val, merged))
          /\ AnchorsUnique(data')
    /\ UNCHANGED <<terms, pathsep, kwargs, results, spc>>
    /\ UNCHANGED <<mvars, pvars>>

\* One complete run of the generator search_for_paths
Search ==
    /\ spc = "ready"
    /\ \E t \in SearchTerms, sep \in PathSeperators, kw \in Kwargs :
          /\ terms' = t
          /\ pathsep' = sep
          /\ kwargs' = kw
          /\ results' = search_for_paths(data, t, sep, kw)
    /\ spc' = "searched"
    /\ UNCHANGED data
    /\ UNCHANGED <<mvars, pvars>>

SearchNext ==
    \/ LoadElement
    \/ LoadPair
    \/ Search

SearchSpec == SearchInit /\ [][SearchNext]_vars

(***************************************************************************)
(* Search command: yaml_paths.main                                         *)
(***************************************************************************)
\* The errors of yaml.load that main catches
ParseErrors == {"ParserError", "ComposerError", "ScannerError"}

\* {y: x}
KeyedDocument ==
    MapNode(<< Pair(<<"y">>, Scalar(<<"x">>, NoAnchor), FALSE) >>, NoAnchor)

\* [&n y, *n]
AliasedDocument ==
    SeqNode(<< Scalar(<<"y">>, <<"n">>), Scalar(<<"y">>, <<"n">>) >>, NoAnchor)

SampleDocuments == { KeyedDocument, AliasedDocument }

\* What "yaml_data = yaml.load(fhnd)" comes to for one of the listed files:
\* the document, or the error raised (yaml_data is then not assigned).
Loads(doc) == [raised |-> "", yaml_data |-> doc]

Raises(error) == [raised |-> error, yaml_data |-> Scalar(<<>>, NoAnchor)]

FileContents ==
    { Raises(e) : e \in ParseErrors } \cup { Loads(d) : d \in SampleDocuments }

\* -s EXPRESSION: =y and !=y
Expressions == { <<"=", "y">>, <<"!", "=", "y">> }

\* YAMLPath("[*{}]".format(expression)).escaped[0][1]: the SearchTerms of
\* an expression that is an optional "!", "=" and the term.
expath_terms(expression) ==
    LET inverted == Head(expression) = "!"
        rest == IF inverted THEN Tail(expression) ELSE expression
    IN  [method |-> "equals", term |-> Tail(rest), inverted |-> inverted]

\* The options of one mutually exclusive group: at most one is set.
KeynameGroup ==
    { g \in [ignorekeynames : BOOLEAN, keynames : BOOLEAN,
             onlykeynames : BOOLEAN] :
        Cardinality({ f \in {"ignorekeynames", "keynames", "onlykeynames"} :
                        g[f] }) <= 1 }

AnchorGroup ==
    { g \in [onlyanchors : BOOLEAN, aliases : BOOLEAN] :
        ~(g.onlyanchors /\ g.aliases) }

\* Every args that processcli can return
ArgsSpace ==
    { [search |-> s, pathsep |-> t, ignorekeynames |-> k.ignorekeynames,
       keynames |-> k.keynames, onlykeynames |-> k.onlykeynames,
       onlyanchors |-> a.onlyanchors, aliases |-> a.aliases,
       yaml_files |-> f] :
        s \in SeqsOf(Expressions, 1, MaxExpressions), t \in PathSeperators,
        k \in KeynameGroup, a \in AnchorGroup,
        f \in SeqsOf(FileContents, 1, MaxFiles) }

in_file_count == Len(args.yaml_files)

in_expressions == Len(args.search)

\* The print call main makes for one result: the format and its arguments.
\* A file is named by its position in args.yaml_files.
print_result(yaml_file, expression, result) ==
    IF in_file_count > 1
    THEN IF in_expressions > 1
         THEN [format |-> "{}[{}]: {}",
               values |-> <<str(yaml_file), expression, result>>]
         ELSE [format |-> "{}: {}", values |-> <<str(yaml_file), result>>]
    ELSE IF in_expressions > 1
         THEN [format |-> "[{}]: {}", values |-> <<expression, result>>]
         ELSE [format |-> "{}", values |-> <<result>>]

\* "for expression in args.search" from expression number n on, for the
\* document of file number yaml_file, with the keyword arguments kw given
\* to search_for_paths: the lines printed.
RECURSIVE process_all_searches(_, _, _)
process_all_searches(yaml_file, n, kw) ==
    IF n > Len(args.search) THEN <<>>
    ELSE LET expression == args.search[n]
             found == search_for_paths(args.yaml_files[yaml_file].yaml_data,
                                       expath_terms(expression),
                                       args.pathsep, kw)
         IN  [i \in 1..Len(found) |->
                  print_result(yaml_file, expression, found[i])]
             \o process_all_searches(yaml_file, n + 1, kw)

parse_failed_ignored(state) == state

\* "exit_state = 3" of the three except clauses
parse_failed(state) == 3

PathsInit ==
    /\ args \in ArgsSpace
    /\ file_number = 0
    /\ search_exit_state = 0
    /\ printed = <<>>
    /\ searches = <<>>
    /\ search_exit = Running
    /\ ppc = "files"
    /\ MergeIdle
    /\ SearchIdle

\* One pass of "for yaml_file in args.yaml_files" that ends in an except
\* clause: the error is logged, exit_state set, and the loop continues.
ParseFailure ==
    /\ ppc = "files"
    /\ file_number < Len(args.yaml_files)
    /\ args.yaml_files[file_number + 1].raised \in ParseErrors
    /\ file_number' = file_number + 1
    /\ search_exit_state' = parse_failed(search_exit_state)
    /\ UNCHANGED <<args, printed, searches, search_exit, ppc>>
    /\ UNCHANGED <<mvars, svars>>

\* One pass of the loop for a file that loads: every expression is searched
\* for in turn, with the defaults of search_for_paths, and every result is
\* printed.
SearchFile ==
    /\ ppc = "files"
    /\ file_number < Len(args.yaml_files)
    /\ args.yaml_files[file_number + 1].raised \notin ParseErrors
    /\ file_number' = file_number + 1
    /\ printed' = printed
                    \o process_all_searches(file_number + 1, 1, DefaultKwargs)
    /\ searches' = searches
                    \o [n \in 1..Len(args.search) |-> <<file_number + 1, n>>]
    /\ UNCHANGED <<args, search_exit_state, search_exit, ppc>>
    /\ UNCHANGED <<mvars, svars>>

\* exit(exit_state)
PathsExit ==
    /\ ppc = "files"
    /\ file_number = Len(args.yaml_files)
    /\ search_exit' = search_exit_state
    /\ ppc' = "done"
    /\ UNCHANGED <<args, file_number, search_exit_state, printed, searches>>
    /\ UNCHANGED <<mvars, svars>>

PathsNext ==
    \/ ParseFailure
    \/ SearchFile
    \/ PathsExit

PathsSpec == PathsInit /\ [][PathsNext]_vars

(***************************************************************************)
(* Merge orchestrator: initial state and steps                             *)
(***************************************************************************)
MergeInit ==
    /\ rhs_files \in SeqsOf(FileNames, 1, MaxFiles)
    /\ isatty \in BOOLEAN
    /\ nostdin \in BOOLEAN
    /\ output \in {"unset", "absent", "exists"}
    /\ config \in {"unset", "readable", "unreadable"}
    /\ pc = "validate"
    /\ errors = {}
    /\ sys_exit = Running
    /\ exit_state = 0
    /\ md_exit_state = 0
    /\ lhs_is_multidoc = FALSE
    /\ prime_data = 0
    /\ doc_number = 0
    /\ fileiterator = 0
    /\ consumed_stdin = FALSE
    /\ trace = <<>>
    /\ sink = "nothing"
    /\ source_value = [i \in 1..(Len(rhs_files) + 1) |-> Unset]
    /\ merger_data = Unset
    /\ dumped = Unset

\* validateargs(args, log)
Validate ==
    /\ pc = "validate"
    /\ UNCHANGED <<svars, pvars>>
    /\ errors' = ValidationErrors(rhs_files, isatty, nostdin, config, output)
    /\ IF errors' # {}
       THEN pc' = "done" /\ sys_exit' = 1
       ELSE pc' = "load_prime" /\ UNCHANGED sys_exit
    /\ UNCHANGED <<rhs_files, isatty, nostdin, output, config, exit_state,
                   md_exit_state, lhs_is_multidoc, prime_data, doc_number,
                   fileiterator, consumed_stdin, trace, sink, source_value,
                   merger_data, dumped>>

\* main, from "The first input file is the prime" to the Merger's creation
LoadPrime ==
    /\ pc = "load_prime"
    /\ UNCHANGED <<svars, pvars>>
    /\ fileiterator' = 1
    /\ consumed_stdin' = (strip(rhs_files[FileAt(1)]) = Dash)
    /\ \E res \in LoadResults, ndocs \in 0..MaxDocs, first \in {"null", "data"} :
         LET lhs_none == \/ res = "none"
                         \/ res = "multi" /\ (ndocs = 0 \/ first = "null")
         IN  /\ res = "multi" \/ (ndocs = 1 /\ first = "data")
             /\ lhs_is_multidoc' = (res = "multi")
             /\ prime_data' = IF res = "multi" /\ ndocs > 0 THEN ndocs - 1 ELSE 0
             /\ trace' = Append(trace, Event("load", FileAt(1), 0,
                                             IF lhs_none THEN "none" ELSE res))
             /\ IF lhs_none
                THEN \* log.critical(..., 1)
                     pc' = "done" /\ sys_exit' = 1 /\ UNCHANGED merger_data
                ELSE \* Merger(log, lhs_data, MergerConfig(log, args))
                     /\ pc' = IF res = "multi" THEN "multidoc" ELSE AfterFile(1)
                     /\ merger_data' = source_value[FileAt(1)]
                     /\ UNCHANGED sys_exit
    /\ exit_state' = 0
    /\ UNCHANGED <<rhs_files, isatty, nostdin, output, config, errors,
                   md_exit_state, doc_number, sink, source_value, dumped>>

\* process_multidoc: one iteration of "for doc in docs"
MultidocStep ==
    /\ pc = "multidoc"
    /\ UNCHANGED <<svars, pvars>>
    /\ prime_data > 0
    /\ prime_data' = prime_data - 1
    /\ doc_number' = doc_number + 1
    /\ \E doc \in DocResults :
         /\ trace' = Append(trace,
                IF doc = "null"
                THEN Event("skip", FileAt(1), doc_number' + 1, "null")
                ELSE Event("merge", FileAt(1), doc_number' + 1, doc))
         /\ md_exit_state' = multidoc_state(md_exit_state, doc)
         /\ merger_data' = IF doc = "ok"
                           THEN merge_with(merger_data,
                                           source_value[FileAt(1)])
                           ELSE merger_data
    /\ UNCHANGED <<rhs_files, isatty, nostdin, output, config, pc, errors,
                   sys_exit, exit_state, lhs_is_multidoc, fileiterator,
                   consumed_stdin, sink, source_value, dumped>>

\* process_multidoc returns; main exits when its status is not 0
MultidocReturn ==
    /\ pc = "multidoc"
    /\ UNCHANGED <<svars, pvars>>
    /\ prime_data = 0
    /\ exit_state' = md_exit_state
    /\ IF exit_state' # 0
       THEN pc' = "done" /\ sys_exit' = exit_state'
       ELSE pc' = AfterFile(1) /\ UNCHANGED sys_exit
    /\ UNCHANGED <<rhs_files, isatty, nostdin, output, config, errors,
                   md_exit_state, lhs_is_multidoc, prime_data, doc_number,
                   fileiterator, consumed_stdin, trace, sink, source_value,
                   merger_data, dumped>>

\* main: one iteration of "for rhs_file in fileiterator"
RhsStep ==
    /\ pc = "rhs_loop"
    /\ UNCHANGED <<svars, pvars>>
    /\ fileiterator' = fileiterator + 1
    /\ LET src == FileAt(fileiterator')
           rhs_file == rhs_files[src]
       IN  \E isf \in BOOLEAN, rhs_data \in LoadResults, merged \in MergeResults :
             LET proc_state == process_rhs(rhs_file, isf, rhs_data, merged)
             IN  /\ trace' = trace \o process_rhs_events(src, rhs_file, isf,
                                                          rhs_data, merged)
                 /\ consumed_stdin' =
                        (consumed_stdin \/ strip(rhs_file) = Dash)
                 /\ merger_data' = merged_data(merger_data, proc_state,
                                                source_value[src])
                 /\ IF proc_state # 0
                    THEN exit_state' = proc_state /\ pc' = "stdin_check"
                    ELSE UNCHANGED exit_state /\ pc' = AfterFile(fileiterator')
    /\ UNCHANGED <<rhs_files, isatty, nostdin, output, config, errors,
                   sys_exit, md_exit_state, lhs_is_multidoc, prime_data,
                   doc_number, sink, source_value, dumped>>

\* main: "Check for a waiting STDIN document"
StdinCheck ==
    /\ pc = "stdin_check"
    /\ UNCHANGED <<svars, pvars>>
    /\ IF DrainStdin(exit_state, consumed_stdin, nostdin, isatty)
       THEN \E rhs_data \in LoadResults, merged \in MergeResults :
              /\ exit_state' = process_rhs(Dash, FALSE, rhs_data, merged)
              /\ trace' = trace \o process_rhs_events(Len(rhs_files) + 1, Dash,
                                                      FALSE, rhs_data, merged)
              /\ merger_data' =
                     merged_data(merger_data, exit_state',
                                 source_value[Len(rhs_files) + 1])
       ELSE UNCHANGED <<exit_state, trace, merger_data>>
    /\ pc' = "emit"
    /\ UNCHANGED <<rhs_files, isatty, nostdin, output, config, errors,
                   sys_exit, md_exit_state, lhs_is_multidoc, prime_data,
                   doc_number, fileiterator, consumed_stdin, sink,
                   source_value, dumped>>

\* main: "Output the final document" and sys.exit(exit_state)
Emit ==
    /\ pc = "emit"
    /\ UNCHANGED <<svars, pvars>>
    /\ sink' = IF ShouldDump(exit_state)
               THEN (IF output # "unset" THEN "file" ELSE "stdout")
               ELSE sink
    /\ dumped' = IF ShouldDump(exit_state) THEN merger_data ELSE dumped
    /\ sys_exit' = exit_state
    /\ pc' = "done"
    /\ UNCHANGED <<rhs_files, isatty, nostdin, output, config, errors,
                   exit_state, md_exit_state, lhs_is_multidoc, prime_data,
                   doc_number, fileiterator, consumed_stdin, trace,
                   source_value, merger_data>>

Init == MergeInit /\ SearchIdle /\ PathsIdle

Next ==
    \/ Validate
    \/ LoadPrime
    \/ MultidocStep
    \/ MultidocReturn
    \/ RhsStep
    \/ StdinCheck
    \/ Emit

Spec == Init /\ [][Next]_vars

\* Runs whose sources set one scalar: regular files, nothing to validate
\* away, and for each source the value its documents give the scalar.
OrderInit ==
    /\ rhs_files \in SeqsOf({ <<"a">> }, 2, MaxFiles)
    /\ isatty \in BOOLEAN
    /\ nostdin = FALSE
    /\ output = "unset"
    /\ config = "unset"
    /\ pc = "validate"
    /\ errors = {}
    /\ sys_exit = Running
    /\ exit_state = 0
    /\ md_exit_state = 0
    /\ lhs_is_multidoc = FALSE
    /\ prime_data = 0
    /\ doc_number = 0
    /\ fileiterator = 0
    /\ consumed_stdin = FALSE
    /\ trace = <<>>
    /\ sink = "nothing"
    /\ source_value \in
          { f \in [1..(Len(rhs_files) + 1) -> PrimeValues \cup RhsValues] :
              /\ f[1] \in PrimeValues
              /\ \A i \in 2..(Len(rhs_files) + 1) : f[i] \in RhsValues }
    /\ merger_data = Unset
    /\ dumped = Unset
    /\ SearchIdle
    /\ PathsIdle

OrderSpec == OrderInit /\ [][Next]_vars

(***************************************************************************)
(* Properties of the merge orchestrator                                    *)
(***************************************************************************)
Events == { trace[i] : i \in 1..Len(trace) }

\* A load that produced no document, or a merge-engine call that raised.
IsFailure(e) ==
    \/ e.op = "load" /\ e.res \in {"missing", "none"}
    \/ e.op = "merge" /\ e.res \in {"conflict", "patherr"}

\* Source number of the implied standard-input source.
StdinSrc == Len(rhs_files) + 1

StdinDrained == \E e \in Events : e.src = StdinSrc

ListedPseudofiles == { i \in 1..Len(rhs_files) : strip(rhs_files[i]) = Dash }

\* C1: once a load or merge step has failed, no further source or document
\* is loaded and the merge engine is not invoked again: a failed step is
\* always the last entry of the record of loads and merges.
C1_AbortOnFirstFailure ==
    \A i \in 1..Len(trace) : IsFailure(trace[i]) => i = Len(trace)

\* C2: a run that ends with a non-zero status has written nothing to the
\* sink, and whatever is written comes from a run that passed validation and
\* in which no load and no merge failed.
C2_NoOutputOnFailure ==
    /\ (pc = "done" /\ sys_exit # 0) => sink = "nothing"
    /\ sink # "nothing" =>
          /\ errors = {}
          /\ \A e \in Events : ~IsFailure(e)
          /\ sink = (IF output = "unset" THEN "stdout" ELSE "file")

C2_Witness ==
    /\ pc = "done"
    /\ sys_exit = 5
    /\ sink = "nothing"
    /\ \E e \in Events : e.op = "merge" /\ e.res = "ok"

\* C3: merge-engine calls happen in source order: the prime's remaining
\* documents in stream order, then the named sources left to right, then the
\* implied standard input; no call for a later source or document precedes a
\* call for an earlier one.
C3_MergeOrder ==
    \A i, j \in 1..Len(trace) :
        (i < j /\ trace[i].op = "merge" /\ trace[j].op = "merge") =>
            \/ trace[i].src < trace[j].src
            \/ trace[i].src = trace[j].src /\ trace[i].doc < trace[j].doc

C3_Witness ==
    /\ pc = "done"
    /\ Len(rhs_files) = 3
    /\ \E e \in Events : e.op = "merge" /\ e.src = 1 /\ e.doc = 3
    /\ \E e \in Events : e.op = "merge" /\ e.src = 2
    /\ \E e \in Events : e.op = "merge" /\ e.src = 3
    /\ \E e \in Events : e.op = "merge" /\ e.src = StdinSrc

\* The claim's notion of "at least two sources overall".
HasTwoSources ==
    \/ Len(rhs_files) >= 2
    \/ /\ Len(rhs_files) = 1
       /\ strip(rhs_files[1]) # Dash
       /\ ~isatty
       /\ ~nostdin

\* C4: validation reports the source-count error exactly for the invocations
\* without two sources overall, and such an invocation exits with status 1
\* before any source is read.
C4_SourceCount ==
    pc # "validate" =>
        /\ ("count" \in errors) <=> ~HasTwoSources
        /\ ("count" \in errors) =>
              pc = "done" /\ sys_exit = 1 /\ trace = <<>> /\ sink = "nothing"

C4_Witness ==
    /\ pc = "done"
    /\ "count" \in errors
    /\ rhs_files = << <<"a">> >>
    /\ ~isatty
    /\ nostdin

\* C5: listing the pseudo-file twice or more fails validation: the run exits
\* with status 1 and no source is loaded and no merge attempted.
C5_OnePseudofile ==
    (Cardinality(ListedPseudofiles) >= 2 /\ pc # "validate") =>
        /\ pc = "done"
        /\ sys_exit = 1
        /\ trace = <<>>
        /\ sink = "nothing"

C5_Witness ==
    /\ pc = "done"
    /\ Cardinality(ListedPseudofiles) = 2
    /\ Len(rhs_files) = 3
    /\ errors = {"pseudofile"}

\* Validation passed and every listed source was loaded and merged without
\* a failure.
NamedSourcesProcessed ==
    /\ pc \in {"emit", "done"}
    /\ errors = {}
    /\ \A e \in Events : e.src <= Len(rhs_files) => ~IsFailure(e)

\* C6: once all named sources have been processed, standard input is taken
\* as a final right-hand source if and only if no listed source was the
\* pseudo-file, nostdin is unset and standard input is not a TTY.
C6_ImpliedStdin ==
    NamedSourcesProcessed =>
        (StdinDrained <=>
            (ListedPseudofiles = {} /\ ~nostdin /\ ~isatty))

C6_Witness ==
    /\ pc = "done"
    /\ Len(rhs_files) = 2
    /\ StdinDrained
    /\ sys_exit = 0

\* C7: a run in which some source failed to parse exits with status 3.
C7_ParseFailureStatus ==
    (pc = "done" /\ \E e \in Events : e.op = "load" /\ e.res = "none") =>
        sys_exit = 3

\* Whether source number src was loaded as a single document or as a stream.
SourceKind(src) ==
    IF \E e \in Events : e.op = "load" /\ e.src = src /\ e.res = "multi"
    THEN "multi" ELSE "single"

\* C8: the status of a run whose merge failed is 4 (conflict) or 5 (path
\* error) when the document came from a single-document source and 6 or 7
\* when it came from a multi-document source.
C8_MergeFailureStatus ==
    pc = "done" =>
        \A e \in Events :
            (e.op = "merge" /\ IsFailure(e)) =>
                sys_exit = (IF e.res = "conflict" THEN 4 ELSE 5)
                           + (IF SourceKind(e.src) = "multi" THEN 2 ELSE 0)

\* C9: when a named right-hand source is not a file, the run exits with
\* status 2, neither that source nor any later one is merged and standard
\* input is not drained.
C9_MissingSource ==
    \A i \in 1..Len(trace) :
        trace[i].res = "missing" =>
            /\ trace[i].src \in 2..Len(rhs_files)
            /\ rhs_files[trace[i].src] # Dash
            /\ i = Len(trace)
            /\ \A e \in Events : e.op = "merge" => e.src < trace[i].src
            /\ ~StdinDrained
            /\ sink = "nothing"
            /\ pc = "done" => sys_exit = 2

C9_Witness ==
    /\ pc = "done"
    /\ sys_exit = 2
    /\ Len(rhs_files) = 3
    /\ ListedPseudofiles = {}
    /\ ~isatty
    /\ ~nostdin
    /\ trace[Len(trace)] = Event("load", 2, 0, "missing")

(***************************************************************************)
(* Properties of the document matcher                                      *)
(***************************************************************************)
Range(seq) == { seq[i] : i \in 1..Len(seq) }

\* The same search expression with the inversion flipped.
Inverse(t) == [t EXCEPT !.inverted = ~t.inverted]

\* The nodes tested by a run with terms t on the current document and flags:
\* (position, role) of every evaluation, and of those that yield.
Visited(t) ==
    { <<e.at, e.role>> : e \in { f \in Range(visit(data, <<>>, <<>>,
                                   Env(t, pathsep, kwargs))) : f.role # "call" } }

YieldedAt(t) ==
    { <<e.at, e.role>> : e \in { f \in Range(visit(data, <<>>, <<>>,
                                   Env(t, pathsep, kwargs))) : f.hit } }

\* The locators the opposite search yields on the same document and flags.
InverseResults == search_for_paths(data, Inverse(terms), pathsep, kwargs)

\* C10 (as claimed): for every document, predicate and flag set, the search
\* and its inverse yield no locator in common, and every candidate either
\* of them visits is yielded by exactly one of the two.
C10_InvertPartitions ==
    spc = "searched" =>
        /\ Range(results) \cap Range(InverseResults) = {}
        /\ \A c \in Visited(terms) \cup Visited(Inverse(terms)) :
              (c \in YieldedAt(terms)) # (c \in YieldedAt(Inverse(terms)))

\* C10 (amended): when search_keys and search_values are not both set, the
\* search and its inverse visit the same candidates, every visited candidate
\* is yielded by exactly one of the two, and each yield is one locator.
C10_InvertPartitionsOneKind ==
    (spc = "searched" /\ ~(kwargs.search_keys /\ kwargs.search_values)) =>
        /\ Visited(terms) = Visited(Inverse(terms))
        /\ \A c \in Visited(terms) :
              (c \in YieldedAt(terms)) # (c \in YieldedAt(Inverse(terms)))
        /\ Len(results) = Cardinality(YieldedAt(terms))
        /\ Len(results) + Len(InverseResults) = Cardinality(Visited(terms))

C10_Witness ==
    /\ spc = "searched"
    /\ kwargs.search_values
    /\ ~kwargs.search_keys
    /\ data.kind = "map"
    /\ Len(data.items) = 2
    /\ Len(results) = 1
    /\ Len(InverseResults) = 1

\* Everything the search just run did, in order, and as a set.
Tests == visit(data, <<>>, <<>>, Env(terms, pathsep, kwargs))

TestSet == Range(Tests)

Calls == { c \in TestSet : c.role = "call" }

\* The locator of a scanned container as its children's locators extend it:
\* the path the call was given, or the root prefix of the slash mode.
ParentLocator(c) ==
    IF c.path = <<>> /\ pathsep = "fslash" THEN <<"/">> ELSE c.path

\* The segment that addresses element number i (from 1) of a sequence.
ElementSegment(ele, i) ==
    IF ele.anchor = NoAnchor
    THEN <<"[", Digits[i], "]">>
    ELSE <<"[", "&">> \o ele.anchor \o <<"]">>

Matches(value) ==
    Yields(search_matches(terms.method, terms.term, value), terms.inverted)

TenTwentyThirty ==
    SeqNode(<< Scalar(<<"1", "0">>, NoAnchor), Scalar(<<"2", "0">>, NoAnchor),
               Scalar(<<"3", "0">>, NoAnchor) >>, NoAnchor)

\* C12: with search_values set, a matching scalar element at zero-based
\* position i of a scanned sequence is reported as the parent's locator
\* followed by [i], or by [&name] when the element carries an anchor, and
\* every locator yielded for an element has that form; searching [10,20,30]
\* for 20 yields the one locator [1].
C12_ElementLocators ==
    /\ (spc = "searched" /\ kwargs.search_values) =>
          \A c \in Calls :
              LET node == NodeAt(data, c.at)
              IN  node.kind = "seq" =>
                    \A i \in 1..Len(node.items) :
                        LET ele == node.items[i]
                            loc == ParentLocator(c) \o ElementSegment(ele, i)
                        IN  /\ (ele.kind = "scalar" /\ Matches(ele.value))
                                  => loc \in Range(results)
                            /\ \A e \in TestSet :
                                  (e.role = "element" /\ e.at = c.at \o <<i>>)
                                      => e.path = loc
    /\ search_for_paths(TenTwentyThirty,
                        [method |-> "equals", term |-> <<"2", "0">>,
                         inverted |-> FALSE], "dot", DefaultKwargs)
          = << <<"[", "1", "]">> >>

C12_Witness ==
    /\ spc = "searched"
    /\ kwargs.search_values
    /\ ~terms.inverted
    /\ pathsep = "fslash"
    /\ data.kind = "seq"
    /\ <<"/", "[", "&", "n", "]">> \in Range(results)
    /\ <<"/", "[", "1", "]", "[", "0", "]">> \in Range(results)

\* The children of a scanned container in the order the scan processes
\* them: every element of a sequence, the pairs of a mapping's pool.
Processed(node) ==
    IF node.kind = "seq" THEN [i \in 1..Len(node.items) |-> i]
    ELSE pool(node, kwargs.include_aliases)

\* The child at `at` was evaluated: tested as a value or recursed into.
Evaluated(at) ==
    \E e \in TestSet : e.at = at /\ e.role \in {"call", "element", "value"}

\* The key of pair number i of a mapping is yielded by the search.
KeyMatched(node, i) ==
    /\ node.kind = "map"
    /\ kwargs.search_keys
    /\ Matches(node.items[i].key)

\* The flags let the child be evaluated, anchors left aside.
Evaluable(node, i) ==
    \/ IsContainer(Child(node, i))
    \/ kwargs.search_values /\ ~KeyMatched(node, i)

\* Processed child number n of the container repeats the anchor of one
\* processed before it.
RepeatsAnchor(node, n) ==
    LET pr == Processed(node)
    IN  /\ Child(node, pr[n]).anchor # NoAnchor
        /\ \E m \in 1..(n - 1) :
              Child(node, pr[m]).anchor = Child(node, pr[n]).anchor

\* C13 (as claimed): in every scanned container, with include_aliases unset
\* a child that repeats the anchor of an earlier child of the same container
\* is skipped and any other child is evaluated when the flags ask for it;
\* with include_aliases set nothing is skipped.
C13_AliasDedupPerContainer ==
    spc = "searched" =>
        \A c \in Calls :
            LET node == NodeAt(data, c.at)
                pr == Processed(node)
            IN  \A n \in 1..Len(pr) :
                    IF ~kwargs.include_aliases /\ RepeatsAnchor(node, n)
                    THEN ~Evaluated(c.at \o <<pr[n]>>)
                    ELSE Evaluable(node, pr[n])
                            => Evaluated(c.at \o <<pr[n]>>)

\* Processed child number n of a mapping is a scalar value that the flags
\* let be tested and that repeats the anchor of an earlier such value.
RepeatsTestedAnchor(node, n) ==
    LET pr == Processed(node)
    IN  /\ Child(node, pr[n]).anchor # NoAnchor
        /\ \E m \in 1..(n - 1) :
              /\ Child(node, pr[m]).anchor = Child(node, pr[n]).anchor
              /\ Evaluable(node, pr[m])

\* C13 (amended): de-duplication is per scanned container and covers the
\* elements of a sequence and the tested scalar values of a mapping. With
\* include_aliases unset an element is skipped exactly when an earlier
\* element of the same sequence carries its anchor, and a scalar value that
\* the flags let be tested is skipped exactly when an earlier such value of
\* the same mapping carries its anchor; a container value of a mapping is
\* always recursed into; with include_aliases set nothing is skipped.
C13_AliasDedupOfTestedChildren ==
    spc = "searched" =>
        \A c \in Calls :
            LET node == NodeAt(data, c.at)
                pr == Processed(node)
            IN  \A n \in 1..Len(pr) :
                    LET child == Child(node, pr[n])
                        skipped ==
                            /\ ~kwargs.include_aliases
                            /\ IF node.kind = "seq"
                               THEN RepeatsAnchor(node, n)
                               ELSE /\ ~IsContainer(child)
                                    /\ RepeatsTestedAnchor(node, n)
                    IN  Evaluated(c.at \o <<pr[n]>>)
                            <=> (Evaluable(node, pr[n]) /\ ~skipped)

\* A mapping's second tested scalar value repeats the first one's anchor and
\* is skipped, while a sequence below the same mapping would be scanned on
\* its own.
C13_Witness ==
    /\ spc = "searched"
    /\ ~kwargs.include_aliases
    /\ kwargs.search_values
    /\ ~kwargs.search_keys
    /\ data.kind = "map"
    /\ Len(Processed(data)) = 2
    /\ RepeatsTestedAnchor(data, 2)
    /\ Evaluated(<<1>>)
    /\ ~Evaluated(<<2>>)
    /\ Len(results) = 1

\* The same anchor under two different containers is evaluated in both.
C13_WitnessAcross ==
    /\ spc = "searched"
    /\ ~kwargs.include_aliases
    /\ data.kind = "map"
    /\ Len(data.items) = 2
    /\ data.items[1].val.anchor # NoAnchor
    /\ data.items[2].val.kind = "seq"
    /\ Len(data.items[2].val.items) = 1
    /\ data.items[2].val.items[1].anchor = data.items[1].val.anchor
    /\ Evaluated(<<1>>)
    /\ Evaluated(<<2, 1>>)

\* The pairs of the scanned mappings: <<position of the mapping, pair index>>.
ScannedPairs ==
    UNION { { <<c.at, i>> : i \in Range(Processed(NodeAt(data, c.at))) }
            : c \in { d \in Calls : NodeAt(data, d.at).kind = "map" } }

\* How many evaluations at the position `at`, with one of the roles, yield.
YieldsAt(at, roles) ==
    Cardinality({ k \in 1..Len(Tests) :
                    /\ Tests[k].at = at
                    /\ Tests[k].role \in roles
                    /\ Tests[k].hit })

\* C14: for every pair of a scanned mapping whose value is a scalar, and
\* every flag setting, the key test and the value test together yield at
\* most once; when search_keys is set and the key satisfies the expression
\* the value is not tested.
C14_PairYieldedOnce ==
    spc = "searched" =>
        \A p \in ScannedPairs :
            LET node == NodeAt(data, p[1])
                here == p[1] \o <<p[2]>>
            IN  ~IsContainer(node.items[p[2]].val) =>
                  /\ YieldsAt(here, {"key", "value"}) <= 1
                  /\ KeyMatched(node, p[2]) =>
                        /\ YieldsAt(here, {"key"}) = 1
                        /\ \A e \in TestSet : e.at = here => e.role = "key"

\* Key and value of one pair both satisfy the expression and the pair is
\* reported once.
C14_Witness ==
    /\ spc = "searched"
    /\ kwargs.search_keys
    /\ kwargs.search_values
    /\ data.kind = "map"
    /\ Len(data.items) = 1
    /\ ~IsContainer(data.items[1].val)
    /\ Matches(data.items[1].key)
    /\ Matches(data.items[1].val.value)
    /\ Len(results) = 1

\* The child at `at` was recursed into: search_for_paths was called on it.
Recursed(at) == \E e \in Calls : e.at = at

\* Every yield of the recursive call made on the child at `at` is among the
\* locators of the whole search.
SubResultsYielded(at) ==
    \A e \in Calls :
        e.at = at =>
            Range(search_for_paths_from(NodeAt(data, at), e.path, at,
                                        Env(terms, pathsep, kwargs)))
                \subseteq Range(results)

\* C15 (as claimed): every mapping or sequence that is an element of a
\* scanned sequence or a value of a scanned mapping is recursed into and
\* its sub-results are yielded, whatever the flags.
C15_ChildrenAlwaysRecursed ==
    spc = "searched" =>
        \A c \in Calls :
            LET node == NodeAt(data, c.at)
            IN  \A i \in 1..Len(node.items) :
                    IsContainer(Child(node, i)) =>
                        /\ Recursed(c.at \o <<i>>)
                        /\ SubResultsYielded(c.at \o <<i>>)

\* C15 (amended): a container value of a scanned pair of a mapping is always
\* recursed into; a container element of a scanned sequence is recursed into
\* unless include_aliases is unset and an earlier element of that sequence
\* carries its anchor, and then it is skipped; search_keys and search_values
\* play no part, and the sub-results of every recursion are yielded.
C15_ChildrenRecursedUnlessDuplicate ==
    spc = "searched" =>
        \A c \in Calls :
            LET node == NodeAt(data, c.at)
                pr == Processed(node)
            IN  \A n \in 1..Len(pr) :
                    IsContainer(Child(node, pr[n])) =>
                        /\ Recursed(c.at \o <<pr[n]>>)
                              <=> ~(/\ node.kind = "seq"
                                    /\ ~kwargs.include_aliases
                                    /\ RepeatsAnchor(node, n))
                        /\ SubResultsYielded(c.at \o <<pr[n]>>)

\* A sequence holds an anchored container and its alias; the first is
\* recursed into, the alias is skipped.
C15_Witness ==
    /\ spc = "searched"
    /\ ~kwargs.include_aliases
    /\ data.kind = "seq"
    /\ Len(data.items) = 2
    /\ IsContainer(data.items[1])
    /\ IsContainer(data.items[2])
    /\ RepeatsAnchor(data, 2)
    /\ Recursed(<<1>>)
    /\ ~Recursed(<<2>>)

\* The characters a locator reads as structure in the active convention.
StructuralTokens == { strsep(pathsep)[1], "[", "]", "&" }

\* A key with a backslash before each of its structural characters.
RECURSIVE EscapedKey(_)
EscapedKey(key) ==
    IF key = <<>> THEN <<>>
    ELSE (IF Head(key) \in StructuralTokens THEN <<"\\">> ELSE <<>>)
            \o <<Head(key)>> \o EscapedKey(Tail(key))

EndsWith(path, segment) ==
    /\ Len(path) >= Len(segment)
    /\ SubSeq(path, Len(path) - Len(segment) + 1, Len(path)) = segment

\* C16 (as claimed): every locator yielded for a pair of a mapping ends with
\* the pair's key in which each occurrence of the active separator, of "[",
\* of "]" and of "&" has a backslash before it.
C16_KeysEscaped ==
    spc = "searched" =>
        \A e \in TestSet :
            (e.hit /\ e.role \in {"key", "value"}) =>
                LET parent == SubSeq(e.at, 1, Len(e.at) - 1)
                    key == NodeAt(data, parent).items[e.at[Len(e.at)]].key
                IN  EndsWith(e.path, EscapedKey(key))

\* The separator character of the active convention.
SepChar == IF pathsep = "dot" THEN "." ELSE "/"

\* C17: a yielded locator does not begin with the separator in dot mode and
\* begins with exactly one separator in slash mode, whether the root is a
\* mapping or a sequence; the locator of a pair of a mapping below the root
\* is the locator of that mapping, one separator, and the key.
C17_SeparatorsInLocators ==
    spc = "searched" =>
        /\ \A i \in 1..Len(results) :
              /\ results[i] # <<>>
              /\ pathsep = "dot" => results[i][1] # SepChar
              /\ pathsep = "fslash" =>
                    /\ results[i][1] = SepChar
                    /\ Len(results[i]) > 1 => results[i][2] # SepChar
        /\ \A p \in ScannedPairs :
              LET key == NodeAt(data, p[1]).items[p[2]].key
                  here == p[1] \o <<p[2]>>
              IN  \A c \in Calls, e \in TestSet :
                      (c.at = p[1] /\ c.at # <<>> /\ e.at = here) =>
                          /\ e.path = c.path \o <<SepChar>> \o key
                          /\ c.path[Len(c.path)] # SepChar
                          /\ key[1] # SepChar

\* A key below a key in slash mode.
C17_Witness ==
    /\ spc = "searched"
    /\ pathsep = "fslash"
    /\ data.kind = "map"
    /\ <<"/", "y", "/", "y">> \in Range(results)

\* An element of a root sequence in slash mode.
C17_WitnessSequence ==
    /\ spc = "searched"
    /\ pathsep = "fslash"
    /\ data.kind = "seq"
    /\ <<"/", "[", "0", "]">> \in Range(results)

\* The keyword arguments the command-line flags select.
FlagKwargs ==
    [search_values |-> ~args.onlykeynames,
     search_keys |-> args.keynames \/ args.onlykeynames,
     include_aliases |-> args.aliases]

FileLoads(n) == args.yaml_files[n].raised \notin ParseErrors

\* What the first n files print when every search is made with kw.
RECURSIVE printed_under(_, _)
printed_under(n, kw) ==
    IF n = 0 THEN <<>>
    ELSE printed_under(n - 1, kw)
            \o (IF FileLoads(n) THEN process_all_searches(n, 1, kw) ELSE <<>>)

\* C11 (as claimed): the lines the search command prints are those of a
\* search under its selection flags: keys only with onlykeynames, keys and
\* values with keynames, values only with neither, duplicate aliases
\* included with aliases and left out without.
C11_FlagsTakeEffect ==
    ppc \in {"files", "done"} =>
        printed = printed_under(file_number, FlagKwargs)

\* C18: a file that fails to parse does not end the loop; after every pass
\* the searches made are exactly those of every expression, in order, on
\* every file taken so far that loaded, in order; the command takes every
\* file and exits with 3 when some file failed to parse and with 0 when
\* none did.
C18_ParseFailureContinues ==
    /\ ppc \in {"files", "done"} =>
          /\ Range(searches) =
                { <<f, n>> : f \in { g \in 1..file_number : FileLoads(g) },
                             n \in 1..Len(args.search) }
          /\ \A i, j \in 1..Len(searches) :
                i < j =>
                    \/ searches[i][1] < searches[j][1]
                    \/ /\ searches[i][1] = searches[j][1]
                       /\ searches[i][2] < searches[j][2]
    /\ ppc = "done" =>
          /\ file_number = Len(args.yaml_files)
          /\ search_exit =
                IF \E f \in 1..Len(args.yaml_files) : ~FileLoads(f)
                THEN 3 ELSE 0

\* A file that fails to parse stands between two that load, and both are
\* searched.
C18_Witness ==
    /\ ppc = "done"
    /\ Len(args.yaml_files) = 3
    /\ FileLoads(1)
    /\ ~FileLoads(2)
    /\ FileLoads(3)
    /\ Len(args.search) = 2
    /\ {<<1, 2>>, <<3, 1>>, <<3, 2>>} \subseteq Range(searches)
    /\ printed # <<>>
    /\ search_exit = 3

\* The loads that read standard input: those of a listed source named "-",
\* blanks around it or not, and that of the implied final source. A load
\* that found its file missing read nothing.
StdinReads ==
    { i \in 1..Len(trace) :
        /\ trace[i].op = "load"
        /\ trace[i].res # "missing"
        /\ \/ trace[i].src = StdinSrc
           \/ strip(rhs_files[trace[i].src]) = Dash }

\* C20: in a run that passed validation standard input is read at most
\* once, the prime, the listed right-hand sources and the implied final
\* source counted together.
C20_StdinReadOnce ==
    (pc # "validate" /\ errors = {}) => Cardinality(StdinReads) <= 1

\* A listed "-" was read, the run succeeded, and standard input had data
\* waiting that the final check left alone.
C20_Witness ==
    /\ pc = "done"
    /\ sys_exit = 0
    /\ ~nostdin
    /\ ~isatty
    /\ Len(rhs_files) = 3
    /\ rhs_files[2] = Dash
    /\ Cardinality(StdinReads) = 1

\* The sources whose documents reached merger.data: the prime, and every
\* source with a merge_with call that returned.
MergedSources ==
    { e.src : e \in { f \in Events : f.op = "merge" /\ f.res = "ok" } }
    \cup { e.src : e \in { f \in Events :
                             f.op = "load" /\ f.src = 1 /\ f.res # "none" } }

\* The value of the last of the merged sources, in the order listed, that
\* sets the scalar.
LastWriter ==
    LET setters == { i \in MergedSources : source_value[i] # Unset }
    IN  IF setters = {} THEN Unset
        ELSE source_value[CHOOSE i \in setters : \A j \in setters : j <= i]

C19_WitnessSwapped ==
    /\ pc = "done"
    /\ sink # "nothing"
    /\ Len(rhs_files) = 3
    /\ ~StdinDrained
    /\ source_value[1] = "A"
    /\ source_value[2] = "C"
    /\ source_value[3] = "B"
    /\ dumped = "B"

\* Position a comes before position b in document order, a node before
\* everything below it.
RECURSIVE Precedes(_, _)
Precedes(a, b) ==
    IF a = <<>> THEN b # <<>>
    ELSE IF b = <<>> THEN FALSE
    ELSE IF Head(a) = Head(b) THEN Precedes(Tail(a), Tail(b))
    ELSE Head(a) < Head(b)

\* The yielding evaluations in the order they were made.
Yielded == SelectSeq(Tests, LAMBDA e : e.hit)

\* C21: the locators come out in depth-first pre-order: the k-th locator is
\* that of the k-th yielding node in document order, so everything child i
\* of a container yields precedes everything child i+1 yields, and a
\* matching key whose value is a container precedes everything the value's
\* subtree yields.
C21_PreOrderEmission ==
    spc = "searched" =>
        /\ Len(results) = Len(Yielded)
        /\ \A k \in 1..Len(Yielded) : results[k] = Yielded[k].path
        /\ \A k, l \in 1..Len(Yielded) :
              k < l => Precedes(Yielded[k].at, Yielded[l].at)

\* A matching key with a container value that holds a match, followed by a
\* second matching pair: key, then subtree, then the next child.
C21_Witness ==
    /\ spc = "searched"
    /\ kwargs.search_keys
    /\ pathsep = "dot"
    /\ data.kind = "map"
    /\ Len(data.items) = 2
    /\ IsContainer(data.items[1].val)
    /\ Len(results) = 3
    /\ Yielded[1].at = <<1>>
    /\ Yielded[1].role = "key"
    /\ Yielded[2].at = <<1, 1>>
    /\ Yielded[3].at = <<2>>

\* Two elements of a sequence both yield, in index order.
C21_WitnessSequence ==
    /\ spc = "searched"
    /\ data.kind = "seq"
    /\ Len(results) = 2
    /\ Yielded[1].at = <<1>>
    /\ Yielded[2].at = <<2>>

\* The status a failed step produces: 1 for a prime with nothing to merge
\* into, 6 and 7 for a document of the prime's stream, 2 to 5 for a
\* right-hand source.
StepStatus(e) ==
    IF e.op = "load"
    THEN (IF e.res = "missing" THEN 2 ELSE IF e.src = 1 THEN 1 ELSE 3)
    ELSE IF e.src = 1
    THEN (IF e.res = "conflict" THEN 6 ELSE 7)
    ELSE (IF e.res = "conflict" THEN 4 ELSE 5)

FailedSteps == { i \in 1..Len(trace) : IsFailure(trace[i]) }

FirstFailure == trace[CHOOSE i \in FailedSteps : \A j \in FailedSteps : i <= j]

\* C22 (as claimed): a run in which a load or merge step failed exits with
\* the status of the first step that failed; no later step changes it.
C22_FirstFailureStatus ==
    (pc = "done" /\ FailedSteps # {}) => sys_exit = StepStatus(FirstFailure)

\* C23 (as claimed): a listed source whose name is "-" once stripped, which
\* validation counts as the pseudo-file and which marks standard input as
\* consumed, is read from standard input: its load is never the rejection
\* of a named file that does not exist.
C23_PseudofileAgreement ==
    \A e \in Events :
        (/\ e.op = "load"
         /\ e.src \in ListedPseudofiles
         /\ errors = {}
         /\ consumed_stdin)
            => e.res # "missing"

\* C24: when the configured output file exists as validation looks, the run
\* ends with status 1 with no source loaded or merged and nothing written;
\* the output file is written only in a run in which validation found it
\* absent and no load or merge failed.
C24_NoOverwrite ==
    /\ (output = "exists" /\ pc # "validate") =>
          /\ pc = "done"
          /\ sys_exit = 1
          /\ "output" \in errors
          /\ trace = <<>>
          /\ sink = "nothing"
    /\ sink = "file" =>
          /\ output = "absent"
          /\ errors = {}
          /\ sys_exit = 0
          /\ \A e \in Events : ~IsFailure(e)

\* The existing output file is the only thing validation objects to.
C24_Witness ==
    /\ pc = "done"
    /\ output = "exists"
    /\ errors = {"output"}
    /\ Len(rhs_files) >= 2
    /\ sys_exit = 1
    /\ sink = "nothing"

\* A run that writes the output file it found absent.
C24_WitnessWritten ==
    /\ pc = "done"
    /\ output = "absent"
    /\ sink = "file"
    /\ \E e \in Events : e.op = "merge" /\ e.res = "ok"

====
